---------------------------- MODULE Spec2Model ----------------------------
(***************************************************************************)
(* Balance-resolution subsystem of the seed-phrase scanner:                *)
(*   - the provider registry (rotation index, cooldown map) of             *)
(*     src/lib/providerRotation.js;                                        *)
(*   - getBalance (the balance-resolution pipeline) of src/unnamed/part_000*)
(* Time is a logical clock; JavaScript Maps are functions whose domain is  *)
(* the set of keys present.                                                *)
(***************************************************************************)
EXTENDS Integers, Sequences, FiniteSets, TLC

(***************************************************************************)
(* Bounds of the model.                                                    *)
(***************************************************************************)
MaxProviders == 2
MaxClock == 2
MaxCooldownEntries == 2

(***************************************************************************)
(* Inputs of the registry operations.  The two currencies and the names    *)
(* "classic-rpc" / "rpc" are chosen so that two different (currency, name) *)
(* pairs build the same cooldown key text.  The lists registered for a     *)
(* currency are the prefixes of its pool of provider names.                *)
(***************************************************************************)
RegCurrencies == {"ethereum", "ethereum-classic"}
NamePool(currency) ==
    IF currency = "ethereum"
    THEN <<"etherscan", "classic-rpc", "infura", "alchemy">>
    ELSE <<"rpc">>
PoolSize(currency) ==
    IF Len(NamePool(currency)) < MaxProviders THEN Len(NamePool(currency)) ELSE MaxProviders
ProviderLists(currency) == {SubSeq(NamePool(currency), 1, n) : n \in 0..PoolSize(currency)}
ProviderNames(currency) == {NamePool(currency)[i] : i \in 1..PoolSize(currency)}
Durations == {0, 1}
NoProvider == "null"

VARIABLES
    providers,      \* module-level Map: currency -> ordered list of provider names
    lastUsedIndex,  \* Map: currency -> 0-based index of the provider returned last
    cooldowns,      \* Map: cooldown key text -> timestamp until which it is excluded
    now,            \* Date.now()
    lastOp,         \* history: the getNextProvider call made last with its result, while
                    \*          no other registry operation has followed it
    deadline,       \* history: (currency, name) -> now + duration of its latest setCooldown
    run,            \* history: currency -> providers returned by its latest consecutive
                    \*          calls made while none of its providers was in cooldown
    extracted,      \* extractor: the latest getNestedValue call: the body and the path
                    \*            given (indices of Bodies and Paths) and the value returned
    apiProviders,   \* the provider table: currency -> ordered list of provider descriptors
    pc,             \* getBalance: where the call in progress stands
    requested,      \* getBalance: its currency argument
    providerIndex,  \* getBalance: position in the provider list (for ... of providers)
    retries,        \* getBalance: retries left for the current provider
    delay,          \* getBalance: the current backoff delay (ms)
    balance,        \* getBalance: the native balance of the current attempt
    rawBalance,     \* getBalance: the value extracted from the response of the current attempt
    result,         \* getBalance: the BalanceResult returned
    threw,          \* getBalance: the call ended by raising an error to its caller
    requests,       \* history: the native-balance requests sent by the call, in order
    tokenLookups,   \* history: the number of token lookups sent by the call
    sleeps,         \* history: the arguments of the call's sleep() calls, in order
    failureLog,     \* history: the number of attempt-failure log entries (line 325)
    tokenDiag,      \* history: the number of token-lookup diagnostics (lines 295, 298)
    noProviderLog,  \* history: "No providers configured" was logged (line 179)
    lastAttempt,    \* history: the attempt concluded last
    tokenReport,    \* history: the response of the call's latest token lookup
    sentWhileCooling,   \* history: a request went to a provider the registry holds in cooldown
    startedAllCooling,  \* history: at the call, every registered provider was in cooldown
    exchangeRateCache,  \* the rate cache: currency -> price
    lastRefresh,    \* history: the latest updateAllExchangeRates: the branch it took, the
                    \*          feed's response and the cache it started from
    derivation,     \* history: the latest deriveAddress call and its result
    botTask,        \* history: the latest per-currency task of startBot and its outcome
    running,        \* the task whose synchronous code is executing (0: none)
    taskCall,       \* per task: the getNextProvider call it is in, with its locals
    refreshRun,     \* the refresh whose writes are under way: the writes still to make
    observed        \* history: the latest getExchangeRate of a lookup task

regVars == <<providers, lastUsedIndex, cooldowns, now, lastOp, deadline, run>>
exVars == <<extracted>>
pipeVars == <<apiProviders, pc, requested, providerIndex, retries, delay, balance, rawBalance,
              result, threw, requests, tokenLookups, sleeps, failureLog, tokenDiag,
              noProviderLog, lastAttempt, tokenReport, sentWhileCooling, startedAllCooling>>
botVars == <<exchangeRateCache, lastRefresh, derivation, botTask, running, taskCall,
             refreshRun, observed>>
vars == <<regVars, exVars, pipeVars, botVars>>

(***************************************************************************)
(* Map.get(k) || d  and  Map.set(k, v)                                     *)
(***************************************************************************)
MapGet(m, k, d) == IF k \in DOMAIN m THEN m[k] ELSE d
MapSet(m, k, v) == [x \in (DOMAIN m) \cup {k} |-> IF x = k THEN v ELSE m[x]]

(***************************************************************************)
(* providerRotation.js                                                     *)
(***************************************************************************)
cooldownKey(currency, name) == currency \o "-" \o name

NextIndexStuck(currentIndex, n) == currentIndex % n
NextIndex(currentIndex, n) == (currentIndex + 1) % n

EligibleStrict(t, cooldownUntil) == t > cooldownUntil
Eligible(t, cooldownUntil) == t >= cooldownUntil

CooldownUntil(t, duration) == t + duration

availableProviders(currency) == MapGet(providers, currency, <<>>)

\* The while loop of getNextProvider: the provider found (or none), its index,
\* and the number of providers examined.
RECURSIVE ScanFrom(_, _, _, _)
ScanFrom(currency, list, currentIndex, attempts) ==
    IF attempts < Len(list)
    THEN LET idx == NextIndex(currentIndex, Len(list))
             provider == list[idx + 1]
             cooldownUntil == MapGet(cooldowns, cooldownKey(currency, provider), 0)
         IN  IF Eligible(now, cooldownUntil)
             THEN [found |-> TRUE, index |-> idx, provider |-> provider,
                   examined |-> attempts + 1]
             ELSE ScanFrom(currency, list, idx, attempts + 1)
    ELSE [found |-> FALSE, index |-> currentIndex, provider |-> NoProvider,
          examined |-> attempts]

\* The registry's own reading of "provider name of currency is in cooldown now".
InCooldown(currency, name) ==
    now < MapGet(cooldowns, cooldownKey(currency, name), 0)

NoneInCooldown(currency) ==
    \A i \in 1..Len(availableProviders(currency)) :
        ~InCooldown(currency, availableProviders(currency)[i])

AllInCooldown(currency) ==
    \A i \in 1..Len(availableProviders(currency)) :
        InCooldown(currency, availableProviders(currency)[i])

\* lastOp after any operation other than getNextProvider.
OtherOp == [op |-> "other", currency |-> "", ret |-> NoProvider, examined |-> 0]

LastN(s, n) == IF Len(s) <= n THEN s ELSE SubSeq(s, Len(s) - n + 1, Len(s))

getNextProvider(currency) ==
    LET list == availableProviders(currency)
        r == IF Len(list) = 0
             THEN [found |-> FALSE, index |-> 0, provider |-> NoProvider, examined |-> 0]
             ELSE ScanFrom(currency, list, MapGet(lastUsedIndex, currency, 0), 0)
    IN  /\ lastUsedIndex' = IF r.found THEN MapSet(lastUsedIndex, currency, r.index)
                            ELSE lastUsedIndex
        /\ lastOp' = [op |-> "getNextProvider", currency |-> currency,
                      ret |-> r.provider, examined |-> r.examined]
        /\ run' = [run EXCEPT ![currency] =
                      IF r.found /\ NoneInCooldown(currency)
                      THEN LastN(Append(@, r.provider), Len(list))
                      ELSE <<>>]
        /\ UNCHANGED <<providers, cooldowns, now, deadline, botVars, exVars, pipeVars>>

setCooldown(currency, providerName, duration) ==
    /\ \/ cooldownKey(currency, providerName) \in DOMAIN cooldowns
       \/ Cardinality(DOMAIN cooldowns) < MaxCooldownEntries
    /\ cooldowns' = MapSet(cooldowns, cooldownKey(currency, providerName),
                           CooldownUntil(now, duration))
    /\ deadline' = MapSet(deadline, <<currency, providerName>>, now + duration)
    /\ lastOp' = OtherOp
    /\ UNCHANGED <<providers, lastUsedIndex, now, run, botVars, exVars, pipeVars>>

registerProviders(currency, providersList) ==
    /\ providers' = MapSet(providers, currency, providersList)
    /\ run' = [run EXCEPT ![currency] = <<>>]
    /\ lastOp' = OtherOp
    /\ UNCHANGED <<lastUsedIndex, cooldowns, now, deadline, botVars, exVars, pipeVars>>

\* Time passes between two operations.
Tick ==
    /\ now < MaxClock
    /\ now' = now + 1
    /\ lastOp' = OtherOp
    /\ UNCHANGED <<providers, lastUsedIndex, cooldowns, deadline, run, botVars, exVars, pipeVars>>

InitRegistry ==
    /\ providers = <<>>
    /\ lastUsedIndex = <<>>
    /\ cooldowns = <<>>
    /\ now = 1
    /\ lastOp = OtherOp
    /\ deadline = <<>>
    /\ run = [c \in RegCurrencies |-> <<>>]

GetNextProviderStep == \E c \in RegCurrencies : getNextProvider(c)
SetCooldownStep ==
    \E c \in RegCurrencies : \E p \in ProviderNames(c), d \in Durations :
        setCooldown(c, p, d)
RegisterProvidersStep ==
    \E c \in RegCurrencies : \E l \in ProviderLists(c) : registerProviders(c, l)

NextRegistry ==
    \/ GetNextProviderStep
    \/ SetCooldownStep
    \/ RegisterProvidersStep
    \/ Tick


(***************************************************************************)
(* JSON values as JavaScript sees them after response.json().  A string is *)
(* a sequence of characters, a number is m * 10^-e (so that non-integers   *)
(* are values too), an object is a sequence of <<key, value>> pairs.       *)
(***************************************************************************)
Undef == [t |-> "undef"]
Null == [t |-> "null"]
Num(m, e) == [t |-> "num", m |-> m, e |-> e]
Whole(n) == Num(n, 0)
Str(s) == [t |-> "str", s |-> s]
Bool(b) == [t |-> "bool", b |-> b]
Arr(items) == [t |-> "arr", items |-> items]
Obj(props) == [t |-> "obj", props |-> props]

\* JavaScript's ToBoolean on these values.
Truthy(v) ==
    CASE v.t = "undef" -> FALSE
      [] v.t = "null" -> FALSE
      [] v.t = "num" -> v.m # 0
      [] v.t = "str" -> Len(v.s) > 0
      [] v.t = "bool" -> v.b
      [] OTHER -> TRUE

\* The decimal texts that are array indices, with their values.
IndexTexts == {"0", "1", "2"}
IndexValue(text) == CASE text = "0" -> 0 [] text = "1" -> 1 [] text = "2" -> 2

RECURSIVE OwnProperty(_, _, _)
OwnProperty(props, key, i) ==
    IF i > Len(props) THEN Undef
    ELSE IF props[i][1] = key THEN props[i][2]
    ELSE OwnProperty(props, key, i + 1)

\* o[n] for a number n: an element of an array, a character of a string, the
\* property named by the number's text of an object; undefined on other values.
ElementAt(o, n) ==
    CASE o.t = "arr" -> IF n < Len(o.items) THEN o.items[n + 1] ELSE Undef
      [] o.t = "str" -> IF n < Len(o.s) THEN Str(<<o.s[n + 1]>>) ELSE Undef
      [] o.t = "obj" -> OwnProperty(o.props, ToString(n), 1)
      [] OTHER -> Undef

\* o[key] for a property name (o is neither undefined nor null).  Names that
\* every object inherits (constructor, toString, ...) are not among the keys used.
PropertyOf(o, key) ==
    CASE o.t = "obj" -> OwnProperty(o.props, key, 1)
      [] o.t \in {"arr", "str"} ->
            IF key \in IndexTexts THEN ElementAt(o, IndexValue(key))
            ELSE IF key = "length"
                 THEN Whole(IF o.t = "arr" THEN Len(o.items) ELSE Len(o.s))
                 ELSE Undef
      [] OTHER -> Undef

\* A path segment is the sequence of its lexical tokens: words (runs of \w
\* characters) and the single characters "[" and "]".
IsWord(token) == token \notin {"[", "]"}
RECURSIVE SegmentText(_)
SegmentText(segment) ==
    IF segment = <<>> THEN "" ELSE Head(segment) \o SegmentText(Tail(segment))

\* i.match(/(\w+)\[(\d+)\]/): the leftmost word followed by a bracketed index.
MatchesAt(segment, i) ==
    /\ i + 3 <= Len(segment)
    /\ IsWord(segment[i])
    /\ segment[i + 1] = "["
    /\ segment[i + 2] \in IndexTexts
    /\ segment[i + 3] = "]"
HasMatch(segment) == \E i \in 1..Len(segment) : MatchesAt(segment, i)
MatchStart(segment) ==
    CHOOSE i \in 1..Len(segment) :
        MatchesAt(segment, i) /\ \A j \in 1..(i - 1) : ~MatchesAt(segment, j)

\* The reducer of getNestedValue applied to one segment.
ReduceStep(o, segment) ==
    IF HasMatch(segment)
    THEN LET name == segment[MatchStart(segment)]
             index == IndexValue(segment[MatchStart(segment) + 2])
         IN  IF Truthy(o) /\ Truthy(PropertyOf(o, name))
             THEN ElementAt(PropertyOf(o, name), index)
             ELSE Undef
    ELSE IF Truthy(o) THEN PropertyOf(o, SegmentText(segment)) ELSE o

\* path.split('.').reduce(..., obj); the path is given as its segments.
RECURSIVE getNestedValue(_, _)
getNestedValue(obj, path) ==
    IF path = <<>> THEN obj
    ELSE getNestedValue(ReduceStep(obj, Head(path)), Tail(path))

(***************************************************************************)
(* Response bodies and response paths the extractor is given.              *)
(***************************************************************************)
Bodies == <<
    Obj(<< <<"status", Str(<<"1">>)>>, <<"result", Str(<<"5", "0", "0">>)>> >>),
    Obj(<< <<"status", Str(<<"1">>)>>, <<"result", Str(<<"0">>)>> >>),
    Obj(<< <<"status", Str(<<"0">>)>>, <<"message", Str(<<"N", "O", "T", "O", "K">>)>>,
           <<"result", Str(<<"a", "b", "c">>)>> >>),
    Obj(<< <<"status", Str(<<"1">>)>>, <<"result", Str(<<"a", "b", "c">>)>> >>),
    Obj(<< <<"status", Str(<<"1">>)>>, <<"result", Str(<<>>)>> >>),
    Obj(<< <<"status", Str(<<"1">>)>> >>),
    Obj(<< <<"status", Str(<<"1">>)>>, <<"result", Null>> >>),
    Obj(<< <<"status", Str(<<"1">>)>>, <<"result", Str(<<"-", "7">>)>> >>),
    Obj(<< <<"data", Arr(<< Obj(<< <<"balance", Str(<<"5", "0", "0">>)>> >>) >>)>> >>),
    Obj(<< <<"data", Arr(<< Obj(<< <<"balance", Whole(500)>> >>) >>)>> >>),
    Obj(<< <<"data", Arr(<<>>)>> >>),
    Obj(<< <<"data", Arr(<< Obj(<<>>) >>)>> >>),
    Obj(<< <<"data", Str(<<"5", "0", "0">>)>> >>),
    Obj(<< <<"data", Whole(0)>> >>),
    Obj(<< <<"balance", Whole(500)>> >>),
    Obj(<< <<"balance", Num(15, 1)>> >>)
>>

Paths == <<
    << <<"result">> >>,
    << <<"balance">> >>,
    << <<"data", "[", "0", "]">>, <<"balance">> >>,
    << <<"data", "[", "1", "]">>, <<"balance">> >>,
    << <<"data">>, <<"balance">> >>,
    << <<"data", "[", "0", "]">> >>,
    << <<"status">> >>,
    << <<"message">> >>,
    << <<"value">> >>
>>

(***************************************************************************)
(* The extractor on its own: a body and a path are given, then             *)
(* getNestedValue is called on them.                                       *)
(***************************************************************************)
NotCalled == [body |-> 0, path |-> 0, value |-> Undef]

InitExtract == extracted = NotCalled

Extract(body, path) ==
    /\ extracted' = [body |-> body, path |-> path,
                     value |-> getNestedValue(Bodies[body], Paths[path])]
    /\ UNCHANGED <<regVars, pipeVars, botVars>>

ExtractStep == \E body \in 1..Len(Bodies), path \in 1..Len(Paths) : Extract(body, path)

NextExtract == ExtractStep

(***************************************************************************)
(* Configuration of the pipeline (part_000, lines 29-79).                  *)
(***************************************************************************)
InitialRetries == 3
InitialDelay == 4000
TokenDecimals == 6
BitcoinDecimals == 8

\* responsePath is an index of Paths.
Etherscan == [name |-> "etherscan", method |-> "", responsePath |-> 1]
Blockcypher == [name |-> "blockcypher", method |-> "", responsePath |-> 2]
Trongrid == [name |-> "trongrid", method |-> "", responsePath |-> 3]
Solana == [name |-> "solana", method |-> "getBalance", responsePath |-> 9]
Toncenter == [name |-> "toncenter", method |-> "", responsePath |-> 0]

\* The table of the source.
SourceProviders ==
    [ethereum |-> <<Etherscan>>, bitcoin |-> <<>>, tron |-> <<Trongrid>>,
     solana |-> <<Solana>>, ton |-> <<Toncenter>>]
\* The same table with a second REST provider for ethereum (the source handles
\* the provider name at line 245) and with the empty list for ton that line 178
\* expects: the table is configuration, and the source's own table never takes
\* the loop of line 184 past one provider.
ExtendedProviders ==
    [ethereum |-> <<Etherscan, Blockcypher>>, bitcoin |-> <<>>, tron |-> <<Trongrid>>,
     solana |-> <<Solana>>, ton |-> <<>>]
ProviderTables == {SourceProviders, ExtendedProviders}

\* The currencies getBalance is called with; "dogecoin" has no entry in the
\* table.  Currency names are chain identifiers: none is a name every
\* JavaScript object inherits (constructor, toString, ...).
Currencies == {"bitcoin", "ethereum", "tron", "solana", "ton", "dogecoin"}

\* apiProviders[currency]: undefined when the table has no such key.
ProviderListOf(c) ==
    IF c \in DOMAIN apiProviders
    THEN [defined |-> TRUE, list |-> apiProviders[c]]
    ELSE [defined |-> FALSE, list |-> <<>>]

\* !providers || providers.length === 0
NoProviderListEmptyOnly(p) == p.defined /\ Len(p.list) = 0
NoProviderList(p) == ~p.defined \/ Len(p.list) = 0

\* Object.keys of networks[currency].tokens; no tokens member for other chains.
NetworkTokens(c) == IF c \in {"ethereum", "tron"} THEN <<"usdt">> ELSE <<>>

(***************************************************************************)
(* Numeric conversions.                                                    *)
(***************************************************************************)
RECURSIVE Pow10(_)
Pow10(k) == IF k = 0 THEN 1 ELSE 10 * Pow10(k - 1)

\* Math.round(x * 10^d) for the number x = m * 10^-e: the nearest integer, a
\* half rounded up; computed exactly.
RoundScaled(x, d) ==
    IF d >= x.e THEN x.m * Pow10(d - x.e)
    ELSE (2 * x.m + Pow10(x.e - d)) \div (2 * Pow10(x.e - d))

DecimalDigits == <<"0", "1", "2", "3", "4", "5", "6", "7", "8", "9">>
IsDigit(ch) == \E i \in 1..10 : DecimalDigits[i] = ch
DigitValue(ch) == (CHOOSE i \in 1..10 : DecimalDigits[i] = ch) - 1

RECURSIVE TrimLeft(_)
TrimLeft(s) == IF s # <<>> /\ Head(s) = " " THEN TrimLeft(Tail(s)) ELSE s
RECURSIVE TrimRight(_)
TrimRight(s) ==
    IF s # <<>> /\ s[Len(s)] = " " THEN TrimRight(SubSeq(s, 1, Len(s) - 1)) ELSE s

RECURSIVE DecimalValue(_, _)
DecimalValue(s, acc) ==
    IF s = <<>> THEN acc ELSE DecimalValue(Tail(s), 10 * acc + DigitValue(Head(s)))

Converted(n) == [ok |-> TRUE, n |-> n]
NotConvertible == [ok |-> FALSE, n |-> 0]

\* StringToBigInt: white space is trimmed, the empty text is 0n, a signed run of
\* decimal digits is its value, anything else is a SyntaxError.  (Texts with a
\* radix prefix, 0x.., are not among the inputs.)
StringToBigInt(s) ==
    LET text == TrimRight(TrimLeft(s))
        signed == text # <<>> /\ Head(text) \in {"-", "+"}
        digits == IF signed THEN Tail(text) ELSE text
    IN  IF text = <<>> THEN Converted(0)
        ELSE IF digits # <<>> /\ \A i \in 1..Len(digits) : IsDigit(digits[i])
             THEN Converted(IF signed /\ Head(text) = "-"
                            THEN 0 - DecimalValue(digits, 0)
                            ELSE DecimalValue(digits, 0))
             ELSE NotConvertible

\* BigInt(value): a non-integer number is a RangeError; an array is converted
\* through its text (the arrays of Bodies that are not empty hold an object,
\* whose text is no number); an object is a SyntaxError.
ToBigInt(v) ==
    CASE v.t = "str" -> StringToBigInt(v.s)
      [] v.t = "num" -> IF v.m % Pow10(v.e) = 0 THEN Converted(v.m \div Pow10(v.e))
                        ELSE NotConvertible
      [] v.t = "bool" -> Converted(IF v.b THEN 1 ELSE 0)
      [] v.t = "arr" -> IF Len(v.items) = 0 THEN Converted(0) ELSE NotConvertible
      [] OTHER -> NotConvertible

(***************************************************************************)
(* What the outside world answers.                                         *)
(***************************************************************************)
Response(k, n) == [k |-> k, n |-> n]
\* fetch(url) of the generic REST handler: it rejects, or answers a status that
\* is not ok, or a body that is not JSON, or one of Bodies.
RestResponses ==
    {Response("throw", 0), Response("status", 429), Response("status", 500),
     Response("badjson", 0)} \cup {Response("body", b) : b \in 1..Len(Bodies)}
\* connection.getBalance / client.getBalance (and the address parsing before
\* them): an error, or a balance.
ClientResponses == {Response("throw", 0), Response("value", 0), Response("value", 500)}
\* The balances (in main units) the aggregator reports.
ReportedBalances == <<Num(0, 0), Num(1, 0), Num(15, 1), Num(4, 7), Num(6, 7)>>
\* fetch of the aggregator endpoints (bitcoin balance, USDT balances): as for
\* REST, a body being {balance: ReportedBalances[n]} or one without balance.
AggregatorResponses ==
    {Response("throw", 0), Response("status", 500), Response("badjson", 0),
     Response("nobalance", 0)} \cup {Response("balance", n) : n \in 1..Len(ReportedBalances)}

IsClientProvider(provider) == provider.method = "getBalance" \/ provider.name = "toncenter"
ResponsesFor(provider) == IF IsClientProvider(provider) THEN ClientResponses ELSE RestResponses

\* The try block up to line 256 on a response: the attempt fails (an error is
\* thrown), or getBalance returns early (line 223), or a balance is computed.
Outcome(kind, raw, value) == [kind |-> kind, raw |-> raw, balance |-> value]

RestBodyOutcome(c, provider, data) ==
    LET members == PropertyOf(data, "data")
        raw == getNestedValue(data, Paths[provider.responsePath])
    IN  IF c = "tron" /\ Truthy(members) /\ PropertyOf(members, "length").t = "num"
           /\ PropertyOf(members, "length").m = 0
        THEN Outcome("early", Undef, 0)
        ELSE IF provider.name = "etherscan"
                /\ ~(PropertyOf(data, "status").t = "str"
                     /\ PropertyOf(data, "status").s = <<"1">>)
        THEN Outcome("fail", Undef, 0)
        ELSE IF raw.t \in {"undef", "null"} THEN Outcome("ok", raw, 0)
        ELSE IF ToBigInt(raw).ok THEN Outcome("ok", raw, ToBigInt(raw).n)
        ELSE Outcome("fail", raw, 0)

NativeOutcome(c, provider, resp) ==
    IF IsClientProvider(provider)
    THEN IF resp.k = "value" THEN Outcome("ok", Undef, resp.n) ELSE Outcome("fail", Undef, 0)
    ELSE IF resp.k = "body" THEN RestBodyOutcome(c, provider, Bodies[resp.n])
         ELSE Outcome("fail", Undef, 0)

\* BigInt(Math.round(data.balance * 10 ** decimals)) on an aggregator response:
\* the units computed, or an error thrown (fetch rejects, the body is not JSON,
\* or balance is missing and BigInt(NaN) is a RangeError); a status that is not
\* ok leaves the balance at 0.
AggregatorOutcome(resp, decimals) ==
    CASE resp.k = "balance" -> [thrown |-> FALSE, units |-> RoundScaled(ReportedBalances[resp.n], decimals)]
      [] resp.k = "status" -> [thrown |-> FALSE, units |-> 0]
      [] OTHER -> [thrown |-> TRUE, units |-> 0]

\* The catch clause that handles an error thrown at a place of getBalance.
HandlerTokenOutsideTry(site) ==
    CASE site = "aggregator" -> "aggregatorCatch"
      [] site = "native" -> "retryCatch"
      [] site = "ethereumToken" -> "none"
      [] site = "tronToken" -> "tokenCatch"
Handler(site) ==
    CASE site = "aggregator" -> "aggregatorCatch"
      [] site = "native" -> "retryCatch"
      [] site = "ethereumToken" -> "retryCatch"
      [] site = "tronToken" -> "tokenCatch"

\* tokenBalance > 0n
KeepTokenAlways(tokenBalance) == TRUE
KeepToken(tokenBalance) == tokenBalance > 0

\* delay *= 2
BackoffConstant(d) == d
Backoff(d) == d * 2

(***************************************************************************)
(* getBalance (part_000, lines 157-340).  One call is in progress at a     *)
(* time; each action runs the code from one await to the next.             *)
(***************************************************************************)
BalanceResult(native, hasTokens, tokens) ==
    [native |-> native, hasTokens |-> hasTokens, tokens |-> tokens]
\* { native: 0n }
ZeroResult == BalanceResult(0, FALSE, <<>>)
NoAttempt == [provider |-> "", ok |-> FALSE, raw |-> Undef, value |-> 0]
NoReport == Response("none", 0)

CurrentProvider == apiProviders[requested][providerIndex]

\* An attempt starts: the request of lines 192-206 goes to provider i.
SendRequest(c, i, sent, cooling) ==
    /\ providerIndex' = i
    /\ pc' = "native"
    /\ requests' = Append(sent, apiProviders[c][i].name)
    /\ sentWhileCooling' = (cooling \/ InCooldown(c, apiProviders[c][i].name))

\* return <res>
Return(res) ==
    /\ pc' = "done"
    /\ result' = res

\* An error leaves the function: the promise of the call is rejected.
Raise ==
    /\ pc' = "done"
    /\ threw' = TRUE
    /\ UNCHANGED result

\* retries > 0 (lines 188 and 327)
RetriesRemainAlways(r) == r >= 0
RetriesRemain(r) == r > 0

\* let delay = 4000 (line 186): the delay a provider's turn starts with, whatever
\* the delay of the previous provider's turn had become.
ProviderDelayCarried(previous) == previous
ProviderDelay(previous) == InitialDelay

\* What the catch clause of lines 324-335 does to the registry's cooldown map:
\* nothing; it logs, counts the retry and sleeps or breaks.
CooldownsAfterFailureMarked(cd, c, name) ==
    MapSet(cd, cooldownKey(c, name), CooldownUntil(now, 1))
CooldownsAfterFailure(cd, c, name) == cd

\* The catch clause of lines 324-335, then the loops of lines 184 and 188.
AttemptFailed ==
    /\ failureLog' = failureLog + 1
    /\ cooldowns' = CooldownsAfterFailure(cooldowns, requested, CurrentProvider.name)
    /\ lastAttempt' = [provider |-> CurrentProvider.name, ok |-> FALSE,
                       raw |-> rawBalance', value |-> 0]
    /\ IF RetriesRemain(retries - 1)
       THEN /\ retries' = retries - 1
            /\ sleeps' = Append(sleeps, delay)
            /\ pc' = "sleep"
            /\ UNCHANGED <<delay, providerIndex, requests, sentWhileCooling, result>>
       ELSE IF providerIndex < Len(apiProviders[requested])
            THEN /\ retries' = InitialRetries
                 /\ delay' = ProviderDelay(Backoff(delay))
                 /\ SendRequest(requested, providerIndex + 1, requests, sentWhileCooling)
                 /\ UNCHANGED <<sleeps, result>>
            ELSE /\ retries' = 0
                 /\ Return(ZeroResult)
                 /\ UNCHANGED <<delay, sleeps, providerIndex, requests, sentWhileCooling>>

\* return result (line 322), or the early return of line 223.
AttemptSucceeded(res) ==
    /\ lastAttempt' = [provider |-> CurrentProvider.name, ok |-> TRUE,
                       raw |-> rawBalance', value |-> res.native]
    /\ Return(res)
    /\ UNCHANGED <<retries, delay, sleeps, providerIndex, requests, sentWhileCooling,
                   failureLog, cooldowns>>

\* getBalance(requested, address) up to its first await.
getBalance(c) ==
    /\ pc \in {"idle", "done"}
    /\ requested' = c
    \* for (const provider of undefined) is a TypeError outside any try
    /\ threw' = (c # "bitcoin" /\ ~NoProviderList(ProviderListOf(c))
                    /\ ~ProviderListOf(c).defined)
    /\ balance' = 0
    /\ rawBalance' = Undef
    /\ tokenLookups' = 0
    /\ sleeps' = <<>>
    /\ failureLog' = 0
    /\ tokenDiag' = 0
    /\ lastAttempt' = NoAttempt
    /\ tokenReport' = NoReport
    /\ startedAllCooling' = (Len(availableProviders(c)) > 0 /\ AllInCooldown(c))
    /\ IF c = "bitcoin"
       THEN /\ pc' = "aggregator"
            /\ requests' = <<"aggregator">>
            /\ sentWhileCooling' = FALSE
            /\ providerIndex' = 0
            /\ retries' = 0
            /\ delay' = 0
            /\ result' = ZeroResult
            /\ noProviderLog' = FALSE
       ELSE IF NoProviderList(ProviderListOf(c))
       THEN /\ Return(ZeroResult)
            /\ noProviderLog' = (c # "ton")
            /\ requests' = <<>>
            /\ sentWhileCooling' = FALSE
            /\ providerIndex' = 0
            /\ retries' = 0
            /\ delay' = 0
       ELSE IF ~ProviderListOf(c).defined
       THEN /\ pc' = "done"
            /\ result' = ZeroResult
            /\ noProviderLog' = FALSE
            /\ requests' = <<>>
            /\ sentWhileCooling' = FALSE
            /\ providerIndex' = 0
            /\ retries' = 0
            /\ delay' = 0
       ELSE /\ retries' = InitialRetries
            /\ delay' = InitialDelay
            /\ SendRequest(c, 1, <<>>, FALSE)
            /\ result' = ZeroResult
            /\ noProviderLog' = FALSE
    /\ UNCHANGED <<regVars, botVars, exVars, apiProviders>>

\* The bitcoin branch (lines 158-172) on the aggregator's answer.
AggregatorResponse(resp) ==
    /\ pc = "aggregator"
    /\ LET out == AggregatorOutcome(resp, BitcoinDecimals)
       IN  /\ pc' = "done"
           /\ threw' = (out.thrown /\ Handler("aggregator") = "none")
           /\ result' = IF out.thrown THEN ZeroResult
                         ELSE BalanceResult(out.units, FALSE, <<>>)
    /\ UNCHANGED <<regVars, botVars, exVars, apiProviders, requested, providerIndex, retries, delay,
                   balance, rawBalance, requests, tokenLookups, sleeps, failureLog,
                   tokenDiag, noProviderLog, lastAttempt, tokenReport, sentWhileCooling,
                   startedAllCooling>>

\* Lines 192-263 on the provider's answer.
NativeResponse(resp) ==
    /\ pc = "native"
    /\ LET out == NativeOutcome(requested, CurrentProvider, resp)
       IN  /\ rawBalance' = out.raw
           /\ CASE out.kind = "fail" ->
                     /\ AttemptFailed
                     /\ UNCHANGED <<balance, tokenLookups, threw>>
                [] out.kind = "early" ->
                     /\ AttemptSucceeded(BalanceResult(0, TRUE, <<>>))
                     /\ UNCHANGED <<balance, tokenLookups, threw>>
                [] out.kind = "ok" /\ NetworkTokens(requested) = <<>> ->
                     /\ balance' = out.balance
                     /\ AttemptSucceeded(BalanceResult(out.balance, FALSE, <<>>))
                     /\ UNCHANGED <<tokenLookups, threw>>
                [] out.kind = "ok" /\ NetworkTokens(requested) # <<>> ->
                     \* the fetch of line 273 or 288 is sent
                     /\ balance' = out.balance
                     /\ tokenLookups' = tokenLookups + 1
                     /\ pc' = "token"
                     /\ UNCHANGED <<retries, delay, sleeps, providerIndex, requests,
                                    sentWhileCooling, failureLog, lastAttempt, result, threw,
                                    cooldowns>>
    /\ UNCHANGED <<providers, lastUsedIndex, now, lastOp, deadline, run>>
    /\ UNCHANGED <<botVars, exVars, apiProviders, requested, tokenDiag, noProviderLog,
                   tokenReport, startedAllCooling>>

\* await sleep(delay); delay *= 2; then the next attempt with the same provider.
Wake ==
    /\ pc = "sleep"
    /\ delay' = Backoff(delay)
    /\ SendRequest(requested, providerIndex, requests, sentWhileCooling)
    /\ UNCHANGED <<regVars, botVars, exVars, apiProviders, requested, retries, balance, rawBalance,
                   result, threw, tokenLookups, sleeps, failureLog, tokenDiag, noProviderLog,
                   lastAttempt, tokenReport, startedAllCooling>>

\* Lines 264-322 on the answer to the USDT lookup (the only token configured).
TokenResponse(resp) ==
    /\ pc = "token"
    /\ tokenReport' = resp
    /\ rawBalance' = rawBalance
    /\ LET token == NetworkTokens(requested)[1]
           out == AggregatorOutcome(resp, TokenDecimals)
           site == IF requested = "ethereum" THEN "ethereumToken" ELSE "tronToken"
           tokenBalance == IF out.thrown THEN 0 ELSE out.units
           tokenBalances == IF KeepToken(tokenBalance) THEN MapSet(<<>>, token, tokenBalance)
                            ELSE <<>>
       IN  CASE out.thrown /\ Handler(site) = "none" ->
                     /\ Raise
                     /\ UNCHANGED <<retries, delay, sleeps, providerIndex, requests,
                                    sentWhileCooling, failureLog, lastAttempt, tokenDiag,
                                    cooldowns>>
             [] out.thrown /\ Handler(site) = "retryCatch" ->
                     /\ AttemptFailed
                     /\ UNCHANGED <<threw, tokenDiag>>
             [] OTHER ->
                     /\ tokenDiag' = IF requested = "tron" /\ resp.k # "balance"
                                     THEN tokenDiag + 1 ELSE tokenDiag
                     /\ AttemptSucceeded(BalanceResult(balance, tokenBalances # <<>>,
                                                       tokenBalances))
                     /\ UNCHANGED threw
    /\ UNCHANGED <<providers, lastUsedIndex, now, lastOp, deadline, run>>
    /\ UNCHANGED <<botVars, exVars, apiProviders, requested, balance, tokenLookups,
                   noProviderLog, startedAllCooling>>

IdlePipeline ==
    /\ pc = "idle"
    /\ requested = ""
    /\ providerIndex = 0
    /\ retries = 0
    /\ delay = 0
    /\ balance = 0
    /\ rawBalance = Undef
    /\ result = ZeroResult
    /\ threw = FALSE
    /\ requests = <<>>
    /\ tokenLookups = 0
    /\ sleeps = <<>>
    /\ failureLog = 0
    /\ tokenDiag = 0
    /\ noProviderLog = FALSE
    /\ lastAttempt = NoAttempt
    /\ tokenReport = NoReport
    /\ sentWhileCooling = FALSE
    /\ startedAllCooling = FALSE

InitPipeline == IdlePipeline /\ apiProviders \in ProviderTables
InitSource == IdlePipeline /\ apiProviders = SourceProviders

GetBalanceStep == \E c \in Currencies : getBalance(c)
AggregatorResponseStep == \E resp \in AggregatorResponses : AggregatorResponse(resp)
NativeResponseStep ==
    /\ pc = "native"
    /\ \E resp \in ResponsesFor(CurrentProvider) : NativeResponse(resp)
TokenResponseStep == \E resp \in AggregatorResponses : TokenResponse(resp)

NextPipeline ==
    \/ GetBalanceStep
    \/ AggregatorResponseStep
    \/ NativeResponseStep
    \/ Wake
    \/ TokenResponseStep

(***************************************************************************)
(* Several lookup tasks using one registry.  The tasks are the async        *)
(* callbacks of one process: a task's code runs from one await to the next   *)
(* before any other task's code runs, and getNextProvider, setCooldown and   *)
(* registerProviders hold no await.                                         *)
(***************************************************************************)
Tasks == {1, 2}
IdleCall == [phase |-> "idle", currency |-> "", currentIndex |-> 0, ret |-> NoProvider]


(***************************************************************************)
(* The exchange-rate cache (part_000, lines 109-155).                      *)
(***************************************************************************)
\* mobulaSymbols, in the order of its keys.
mobulaSymbols ==
    << <<"bitcoin", "BTC">>, <<"ethereum", "ETH">>, <<"solana", "SOL">>,
       <<"ton", "TON">>, <<"usdt", "USDT">> >>
\* The hardcoded rates of lines 136-140 and 145-149.
FallbackRates ==
    << <<"bitcoin", 60000>>, <<"ethereum", 3000>>, <<"solana", 150>>,
       <<"ton", 6>>, <<"usdt", 1>> >>
\* The currencies getExchangeRate is asked about: the tracked ones, and tron,
\* which startBot prices although it is not tracked.
RateCurrencies == {"bitcoin", "ethereum", "solana", "ton", "usdt", "tron"}

\* Object.keys(mobulaSymbols).find(key => mobulaSymbols[key] === symbol): the
\* currency, or "" for undefined.
RECURSIVE FindCurrency(_, _)
FindCurrency(symbol, i) ==
    IF i > Len(mobulaSymbols) THEN ""
    ELSE IF mobulaSymbols[i][2] = symbol THEN mobulaSymbols[i][1]
    ELSE FindCurrency(symbol, i + 1)

\* The bodies the price feed answers.
FeedBodies ==
    << Obj(<< <<"BTC", Obj(<< <<"USD", Whole(61000)>> >>)>>,
              <<"ETH", Obj(<< <<"USD", Whole(3100)>> >>)>>,
              <<"SOL", Obj(<< <<"USD", Whole(140)>> >>)>>,
              <<"TON", Obj(<< <<"USD", Whole(5)>> >>)>>,
              <<"USDT", Obj(<< <<"USD", Whole(2)>> >>)>> >>),
       Obj(<< <<"BTC", Obj(<< <<"USD", Whole(62000)>> >>)>> >>),
       Obj(<< <<"ETH", Obj(<< <<"USD", Whole(0)>> >>)>>,
              <<"SOL", Obj(<< <<"USD", Whole(140)>> >>)>> >>),
       Obj(<< <<"Response", Str(<<"E", "r", "r", "o", "r">>)>>,
              <<"Message", Str(<<"l", "i", "m", "i", "t">>)>> >>),
       Obj(<< <<"BTC", Obj(<<>>)>>, <<"DOGE", Obj(<< <<"USD", Whole(1)>> >>)>>,
              <<"TON", Null>> >>),
       Null >>
\* fetch rejects; or response.json() rejects; or a status (response.ok or not)
\* with one of FeedBodies.
FeedResponses ==
    {[k |-> "throw", ok |-> FALSE, body |-> 0], [k |-> "badjson", ok |-> TRUE, body |-> 0],
     [k |-> "badjson", ok |-> FALSE, body |-> 0]}
        \cup {[k |-> "body", ok |-> ok, body |-> b] : ok \in BOOLEAN, b \in 1..Len(FeedBodies)}
NoRefresh == [kind |-> "none", resp |-> [k |-> "none", ok |-> FALSE, body |-> 0], before |-> <<>>]

\* exchangeRateCache[currency] = price
WritePriceOnly(cache, currency, price) == MapSet(<<>>, currency, price)
WritePrice(cache, currency, price) == MapSet(cache, currency, price)

\* The five assignments of lines 136-140 (and 145-149).
RECURSIVE WithFallbackIfEmpty(_, _)
WithFallbackIfEmpty(cache, i) ==
    IF i > Len(FallbackRates) THEN cache
    ELSE WithFallbackIfEmpty(
             IF FallbackRates[i][1] \in DOMAIN cache THEN cache
             ELSE MapSet(cache, FallbackRates[i][1], Whole(FallbackRates[i][2])), i + 1)
RECURSIVE WithFallback(_, _)
WithFallback(cache, i) ==
    IF i > Len(FallbackRates) THEN cache
    ELSE WithFallback(MapSet(cache, FallbackRates[i][1], Whole(FallbackRates[i][2])), i + 1)

\* The loop of lines 126-131 from the i-th key of data on.
RECURSIVE WithPrices(_, _, _)
WithPrices(cache, data, i) ==
    IF i > Len(data.props) THEN cache
    ELSE LET symbol == data.props[i][1]
             entry == data.props[i][2]
             cur == FindCurrency(symbol, 1)
             usable == cur # "" /\ Truthy(entry) /\ Truthy(PropertyOf(entry, "USD"))
         IN  WithPrices(IF usable THEN WritePrice(cache, cur, PropertyOf(entry, "USD"))
                        ELSE cache, data, i + 1)

\* Which branch a response takes: the catch clause (142-150), the else branch
\* (133-141) or the loop (125-132).  Reading a property of null is a TypeError.
RefreshBranch(resp) ==
    IF resp.k # "body" \/ FeedBodies[resp.body].t = "null" THEN "catch"
    ELSE IF resp.ok /\ PropertyOf(FeedBodies[resp.body], "Response")
                          # Str(<<"E", "r", "r", "o", "r">>)
         THEN "loop"
         ELSE "else"

\* updateAllExchangeRates() from the answer of the feed to its end: no await
\* separates its writes.
updateAllExchangeRates(resp) ==
    /\ exchangeRateCache' =
          IF RefreshBranch(resp) = "loop"
          THEN WithPrices(exchangeRateCache, FeedBodies[resp.body], 1)
          ELSE WithFallback(exchangeRateCache, 1)
    /\ lastRefresh' = [kind |-> IF RefreshBranch(resp) = "loop" THEN "success"
                                ELSE "fallback",
                       resp |-> resp, before |-> exchangeRateCache]
    /\ UNCHANGED <<regVars, exVars, pipeVars, derivation, botTask, running, taskCall,
                   refreshRun, observed>>

\* exchangeRateCache[currency] || 0
getExchangeRate(currency) ==
    IF currency \in DOMAIN exchangeRateCache /\ Truthy(exchangeRateCache[currency])
    THEN exchangeRateCache[currency]
    ELSE Whole(0)

(***************************************************************************)
(* deriveAddress (lines 81-107) and the task startBot runs per currency     *)
(* (lines 367-380).                                                        *)
(***************************************************************************)
DeriveCurrencies == {"bitcoin", "ethereum", "solana", "ton", "tron", "dogecoin", "usdt"}
currenciesToCheck == {"bitcoin", "ethereum", "solana", "ton", "tron"}

\* return address
Derived(currency) == [threw |-> FALSE, address |-> "address:" \o currency]
\* default: throw new Error(`Unsupported currency for derivation: ...`)
DefaultCaseEmpty(currency) == [threw |-> FALSE, address |-> ""]
DefaultCase(currency) == [threw |-> TRUE, address |-> ""]

\* The switch of lines 83-106 (the key material being valid).
DeriveResult(currency) ==
    IF currency \in {"bitcoin", "solana", "ton", "tron"} THEN Derived(currency)
    ELSE DefaultCase(currency)

NoDerivation == [currency |-> "", threw |-> FALSE, address |-> ""]
NoTask == [currency |-> "", outcome |-> "none", address |-> ""]

\* A call of deriveAddress by a collaborator.
deriveAddress(currency) ==
    /\ derivation' = [currency |-> currency, threw |-> DeriveResult(currency).threw,
                      address |-> DeriveResult(currency).address]
    /\ UNCHANGED <<regVars, exVars, pipeVars, exchangeRateCache, lastRefresh, botTask,
                   running, taskCall, refreshRun, observed>>

\* The callback of line 367 up to its call of getBalance: the address is the
\* wallet's for ethereum and deriveAddress's otherwise, with no try around it;
\* an error rejects the task (and Promise.all, and startBot).
startBotTask(currency) ==
    /\ LET r == IF currency = "ethereum" THEN Derived(currency) ELSE DeriveResult(currency)
       IN  botTask' = [currency |-> currency,
                       outcome |-> IF r.threw THEN "rejected"
                                   ELSE IF r.address # "" THEN "checked" ELSE "skipped",
                       address |-> r.address]
    /\ UNCHANGED <<regVars, exVars, pipeVars, exchangeRateCache, lastRefresh, derivation,
                   running, taskCall, refreshRun, observed>>

NoRefreshRun == [phase |-> "idle", pending |-> <<>>, total |-> 0]
NoObservation == [currency |-> "", value |-> Whole(0), partial |-> FALSE]

InitBot ==
    /\ exchangeRateCache = <<>>
    /\ lastRefresh = NoRefresh
    /\ derivation = NoDerivation
    /\ botTask = NoTask
    /\ running = 0
    /\ taskCall = [t \in Tasks |-> IdleCall]
    /\ refreshRun = NoRefreshRun
    /\ observed = NoObservation

UpdateAllExchangeRatesStep == \E resp \in FeedResponses : updateAllExchangeRates(resp)
DeriveAddressStep == \E c \in DeriveCurrencies : deriveAddress(c)
StartBotTaskStep == \E c \in currenciesToCheck : startBotTask(c)

NextBot ==
    \/ UpdateAllExchangeRatesStep
    \/ DeriveAddressStep
    \/ StartBotTaskStep

(***************************************************************************)
(* Specifications: the registry alone, the extractor alone, the pipeline   *)
(* alone (over either provider table), and the pipeline together with the  *)
(* registry.                                                               *)
(***************************************************************************)
Init == InitRegistry /\ InitExtract /\ InitSource /\ InitBot
InitTables == InitRegistry /\ InitExtract /\ InitPipeline /\ InitBot

\* The pipeline resolving balances of one currency while its collaborators
\* register that currency's providers and put them in cooldown.
WiredCurrency == "ethereum"
WiredGetBalance == getBalance(WiredCurrency)
WiredRegisterProviders ==
    \E l \in ProviderLists(WiredCurrency) : registerProviders(WiredCurrency, l)
WiredSetCooldown ==
    \E p \in ProviderNames(WiredCurrency), d \in Durations :
        setCooldown(WiredCurrency, p, d)

\* Task t may run its next step: no other task is inside a call.
ScheduledAlways(t) == TRUE
Scheduled(t) == running \in {0, t}

\* getNextProvider, lines 10-14: task t enters the call and reads the list, the
\* time and the index returned last.
TaskBegin(t, currency) ==
    /\ Scheduled(t)
    /\ taskCall[t].phase = "idle"
    /\ taskCall' = [taskCall EXCEPT ![t] =
                       [phase |-> "read", currency |-> currency,
                        currentIndex |-> MapGet(lastUsedIndex, currency, 0),
                        ret |-> NoProvider]]
    /\ running' = t
    /\ UNCHANGED <<regVars, exVars, pipeVars, exchangeRateCache, lastRefresh, derivation,
                   botTask, refreshRun, observed>>

\* getNextProvider, lines 16-31: the loop from the index read, the write of the
\* index, the return.
TaskFinish(t) ==
    /\ Scheduled(t)
    /\ taskCall[t].phase = "read"
    /\ LET c == taskCall[t].currency
           list == availableProviders(c)
           r == IF Len(list) = 0
                THEN [found |-> FALSE, index |-> 0, provider |-> NoProvider, examined |-> 0]
                ELSE ScanFrom(c, list, taskCall[t].currentIndex, 0)
       IN  /\ lastUsedIndex' = IF r.found THEN MapSet(lastUsedIndex, c, r.index)
                               ELSE lastUsedIndex
           /\ lastOp' = [op |-> "getNextProvider", currency |-> c,
                         ret |-> r.provider, examined |-> r.examined]
           /\ run' = [run EXCEPT ![c] =
                         IF r.found /\ NoneInCooldown(c)
                         THEN LastN(Append(@, r.provider), Len(list))
                         ELSE <<>>]
           /\ taskCall' = [taskCall EXCEPT ![t] =
                              [phase |-> "idle", currency |-> c, currentIndex |-> 0,
                               ret |-> r.provider]]
    /\ running' = 0
    /\ UNCHANGED <<providers, cooldowns, now, deadline, exVars, pipeVars,
                   exchangeRateCache, lastRefresh, derivation, botTask, refreshRun, observed>>

\* A task that is not inside a call calls setCooldown or registerProviders.
TaskSetCooldown(t) ==
    /\ Scheduled(t)
    /\ taskCall[t].phase = "idle"
    /\ WiredSetCooldown
TaskRegisterProviders(t) ==
    /\ Scheduled(t)
    /\ taskCall[t].phase = "idle"
    /\ WiredRegisterProviders

TaskBeginStep == \E t \in Tasks : TaskBegin(t, WiredCurrency)
TaskFinishStep == \E t \in Tasks : TaskFinish(t)
TaskSetCooldownStep == \E t \in Tasks : TaskSetCooldown(t)
TaskRegisterProvidersStep == \E t \in Tasks : TaskRegisterProviders(t)

NextTasks ==
    \/ TaskBeginStep
    \/ TaskFinishStep
    \/ TaskSetCooldownStep
    \/ TaskRegisterProvidersStep
    \/ Tick

(***************************************************************************)
(* updateAllExchangeRates write by write, beside lookup tasks that read the *)
(* cache.  The refresh runs as a callback of the same process (the call of  *)
(* line 353 and the timer of line 354).                                    *)
(***************************************************************************)
\* The identity of the refresh among the running tasks.
Refresher == 3

\* The assignments the loop of lines 126-131 makes, in order.
RECURSIVE PricedWrites(_, _)
PricedWrites(data, i) ==
    IF i > Len(data.props) THEN <<>>
    ELSE LET symbol == data.props[i][1]
             entry == data.props[i][2]
             cur == FindCurrency(symbol, 1)
             usable == cur # "" /\ Truthy(entry) /\ Truthy(PropertyOf(entry, "USD"))
         IN  (IF usable THEN << <<cur, PropertyOf(entry, "USD")>> >> ELSE <<>>)
                 \o PricedWrites(data, i + 1)
\* The assignments of lines 136-140 (and 145-149), in order.
FallbackWrites ==
    [i \in 1..Len(FallbackRates) |-> <<FallbackRates[i][1], Whole(FallbackRates[i][2])>>]

\* Whether the refresh gives way to other tasks between two of its writes: no
\* await stands in the loop of lines 126-131 nor between the assignments of
\* lines 136-140 and 145-149.
RefreshYieldsBetweenWrites(pending) == pending # <<>>
RefreshYields(pending) == FALSE

\* The feed's answer arrives (the awaits of lines 122-123 end) and the branch
\* is taken.
RefreshBegin(resp) ==
    /\ running = 0
    /\ refreshRun.phase = "idle"
    /\ LET writes == IF RefreshBranch(resp) = "loop"
                     THEN PricedWrites(FeedBodies[resp.body], 1)
                     ELSE FallbackWrites
       IN  refreshRun' = [phase |-> "writing", pending |-> writes, total |-> Len(writes)]
    /\ lastRefresh' = [kind |-> IF RefreshBranch(resp) = "loop" THEN "success"
                                ELSE "fallback",
                       resp |-> resp, before |-> exchangeRateCache]
    /\ running' = Refresher
    /\ UNCHANGED <<regVars, exVars, pipeVars, exchangeRateCache, derivation, botTask,
                   taskCall, observed>>

\* One assignment to exchangeRateCache.
RefreshWrite ==
    /\ running \in {0, Refresher}
    /\ refreshRun.phase = "writing"
    /\ refreshRun.pending # <<>>
    /\ exchangeRateCache' = WritePrice(exchangeRateCache, Head(refreshRun.pending)[1],
                                       Head(refreshRun.pending)[2])
    /\ refreshRun' = [refreshRun EXCEPT !.pending = Tail(refreshRun.pending)]
    /\ running' = IF RefreshYields(Tail(refreshRun.pending)) THEN 0 ELSE Refresher
    /\ UNCHANGED <<regVars, exVars, pipeVars, lastRefresh, derivation, botTask, taskCall,
                   observed>>

\* The function returns.
RefreshEnd ==
    /\ running \in {0, Refresher}
    /\ refreshRun.phase = "writing"
    /\ refreshRun.pending = <<>>
    /\ refreshRun' = NoRefreshRun
    /\ running' = 0
    /\ UNCHANGED <<regVars, exVars, pipeVars, exchangeRateCache, lastRefresh, derivation,
                   botTask, taskCall, observed>>

\* A lookup task calls getExchangeRate (lines 383 and 406).
TaskGetRate(t, currency) ==
    /\ Scheduled(t)
    /\ observed' = [currency |-> currency, value |-> getExchangeRate(currency),
                    partial |-> /\ refreshRun.phase = "writing"
                                /\ Len(refreshRun.pending) > 0
                                /\ Len(refreshRun.pending) < refreshRun.total]
    /\ UNCHANGED <<regVars, exVars, pipeVars, exchangeRateCache, lastRefresh, derivation,
                   botTask, running, taskCall, refreshRun>>

RefreshBeginStep == \E resp \in FeedResponses : RefreshBegin(resp)
TaskGetRateStep == \E t \in Tasks, c \in RateCurrencies : TaskGetRate(t, c)

NextRates ==
    \/ RefreshBeginStep
    \/ RefreshWrite
    \/ RefreshEnd
    \/ TaskGetRateStep
    \/ StartBotTaskStep

NextWired ==
    \/ WiredGetBalance
    \/ NativeResponseStep
    \/ Wake
    \/ TokenResponseStep
    \/ WiredRegisterProviders
    \/ WiredSetCooldown
    \/ Tick

SpecRegistry == Init /\ [][NextRegistry]_vars
SpecExtract == Init /\ [][NextExtract]_vars
SpecPipeline == InitTables /\ [][NextPipeline]_vars
SpecWired == Init /\ [][NextWired]_vars

\* Every request is eventually answered (or fails), and every sleep ends.
PipelineFairness ==
    /\ WF_vars(AggregatorResponseStep)
    /\ WF_vars(NativeResponseStep)
    /\ WF_vars(TokenResponseStep)
    /\ WF_vars(Wake)
SpecPipelineLive == SpecPipeline /\ PipelineFairness
SpecBot == Init /\ [][NextBot]_vars
SpecTasks == Init /\ [][NextTasks]_vars
SpecRates == Init /\ [][NextRates]_vars


(***************************************************************************)
(* Claims about the provider registry.                                     *)
(***************************************************************************)

\* C1 (rotation fairness): the providers returned by consecutive getNextProvider
\* calls for one currency, made while none of its N providers is in cooldown, are
\* pairwise distinct over every window of N calls, and each is one of the N
\* registered providers: N consecutive calls return each provider exactly once.
C1_RotationFairness ==
    \A c \in RegCurrencies :
        /\ Len(run[c]) <= Len(availableProviders(c))
        /\ \A i \in 1..Len(run[c]) :
              \E k \in 1..Len(availableProviders(c)) : availableProviders(c)[k] = run[c][i]
        /\ \A i, j \in 1..Len(run[c]) : i # j => run[c][i] # run[c][j]

\* A full cycle: N >= 2 consecutive calls have been made for a currency with N
\* providers, none in cooldown.
C1_Witness ==
    \E c \in RegCurrencies :
        /\ Len(availableProviders(c)) >= 2
        /\ Len(run[c]) = Len(availableProviders(c))

\* C2 (cooldown respected): a provider returned by getNextProvider(cur) at time
\* now is not one for which the latest setCooldown(cur, p, d), made at time t,
\* has now < t + d.
C2_CooldownRespected ==
    (lastOp.op = "getNextProvider" /\ lastOp.ret # NoProvider)
        => now >= MapGet(deadline, <<lastOp.currency, lastOp.ret>>, 0)

\* C3 (getNextProvider is total): a call examines at most N providers, returns
\* none exactly when the list is empty or every provider is in cooldown at the
\* time of the call, and otherwise returns a registered provider that is not in
\* cooldown.
C3_GetNextProviderTotal ==
    lastOp.op = "getNextProvider" =>
        LET c == lastOp.currency
            list == availableProviders(c)
        IN  /\ lastOp.examined <= Len(list)
            /\ (lastOp.ret = NoProvider) <=> (Len(list) = 0 \/ AllInCooldown(c))
            /\ lastOp.ret # NoProvider =>
                  /\ \E k \in 1..Len(list) : list[k] = lastOp.ret
                  /\ ~InCooldown(c, lastOp.ret)

\* Every provider of a list of at least 2 is in cooldown, and the call returned
\* none after examining each of them once.
C3_Witness ==
    /\ lastOp.op = "getNextProvider"
    /\ Len(availableProviders(lastOp.currency)) >= 2
    /\ AllInCooldown(lastOp.currency)
    /\ lastOp.ret = NoProvider
    /\ lastOp.examined = Len(availableProviders(lastOp.currency))


(***************************************************************************)
(* Claims about the response extractor.                                    *)
(***************************************************************************)

\* The value a path addresses in a tree-shaped response: a segment "name" selects
\* the member name of an object, a segment "name[k]" the k-th element of the
\* array that is the member name; anything else is absent.
Absent == [t |-> "absent"]
TreeStep(v, segment) ==
    IF v.t # "obj" \/ OwnProperty(v.props, segment[1], 1).t = "undef" THEN Absent
    ELSE LET member == OwnProperty(v.props, segment[1], 1)
         IN  IF Len(segment) = 1 THEN member
             ELSE IF member.t = "arr" /\ IndexValue(segment[3]) < Len(member.items)
                  THEN member.items[IndexValue(segment[3]) + 1]
                  ELSE Absent
RECURSIVE TreeGet(_, _)
TreeGet(v, path) ==
    IF path = <<>> \/ v.t = "absent" THEN v
    ELSE TreeGet(TreeStep(v, Head(path)), Tail(path))

\* C8 (extraction): getNestedValue returns the addressed value when every
\* segment of the path exists in the response, and "absent" (undefined, or the
\* null the caller treats alike) when a segment or an index is missing.
C8_ExtractionCorrect ==
    extracted.body # 0 =>
        LET addressed == TreeGet(Bodies[extracted.body], Paths[extracted.path])
        IN  IF addressed.t = "absent"
            THEN extracted.value.t \in {"undef", "null"}
            ELSE extracted.value.t = addressed.t /\ extracted.value = addressed


(***************************************************************************)
(* Claims about getBalance.                                                *)
(***************************************************************************)

\* The call has ended.
Returned == pc = "done"
\* The requested currency has a provider list in the table, and it is not empty.
HasProviders ==
    requested \in DOMAIN apiProviders /\ Len(apiProviders[requested]) > 0
\* Every provider of the requested currency has failed all of its attempts.
Exhausted ==
    /\ Returned
    /\ requested # "bitcoin"
    /\ HasProviders
    /\ failureLog = InitialRetries * Len(apiProviders[requested])
IsBalanceResult(r) ==
    /\ r.native \in Int
    /\ \A t \in DOMAIN r.tokens : r.tokens[t] \in Int
    /\ (DOMAIN r.tokens # {}) => r.hasTokens

C5_CooldownHonoured ==
    /\ ~sentWhileCooling
    /\ (Returned /\ startedAllCooling /\ AllInCooldown(requested))
          => (result = ZeroResult /\ requests = <<>>)

\* C6 as stated: every currency whose provider list is empty or missing gets
\* { native: 0 } without an error, a request, an attempt or a sleep.
ListEmptyOrMissing ==
    requested \notin DOMAIN apiProviders \/ Len(apiProviders[requested]) = 0
NoWorkDone ==
    /\ ~threw
    /\ result = ZeroResult
    /\ requests = <<>>
    /\ tokenLookups = 0
    /\ sleeps = <<>>
    /\ failureLog = 0
    /\ lastAttempt = NoAttempt
FailFailSucceed ==
    /\ Returned
    /\ lastAttempt.ok
    /\ Len(requests) = 3
RECURSIVE Sum(_)
Sum(s) == IF s = <<>> THEN 0 ELSE Head(s) + Sum(Tail(s))

IsIntegerText(s) ==
    LET digits == IF s # <<>> /\ Head(s) \in {"-", "+"} THEN Tail(s) ELSE s
    IN  digits # <<>> /\ \A i \in 1..Len(digits) : digits[i] \in
            {"0", "1", "2", "3", "4", "5", "6", "7", "8", "9"}

\* C9 (malformed number): an attempt whose response holds, at the response
\* path, a text that is not an integer fails as a network error does: it is
\* logged as a failed attempt and never succeeds (with native 0 or otherwise).
C9_MalformedNumberFails ==
    (lastAttempt.raw.t = "str" /\ ~IsIntegerText(lastAttempt.raw.s))
        => (~lastAttempt.ok /\ failureLog > 0)

\* The amount the token lookup of the returning attempt reported.
TokenReported == tokenReport.k = "balance"
ReportedAmount == ReportedBalances[tokenReport.n]
\* v is the integer nearest to x * 10^d (x = m * 10^-e).
NearestUnits(v, x, d) ==
    /\ 2 * (v * Pow10(x.e) - x.m * Pow10(d)) <= Pow10(x.e)
    /\ 2 * (x.m * Pow10(d) - v * Pow10(x.e)) <= Pow10(x.e)

C11_TokensOnlyWhenPositive ==
    /\ pc = "token" => balance > 0
    /\ (Returned /\ lastAttempt.ok /\ result.native = 0)
          => (tokenLookups = 0 /\ DOMAIN result.tokens = {})

\* C18 (token lookups are single-shot): a call looks the token of its currency
\* up at most once, and whatever that lookup answers the call then returns: no
\* sleep follows it and the native request is not sent again.
C18_TokenSingleShot ==
    /\ tokenLookups <= 1
    /\ (tokenLookups = 1 /\ pc # "token") => Returned

\* The call is between its first request and its return.
InFlight == pc \in {"aggregator", "native", "token", "sleep"}
\* The attempts made so far on the provider whose turn it is.
AttemptsOnCurrent == Len(requests) - 3 * (providerIndex - 1)
\* The call goes through the provider list (it is not resolved by the aggregator
\* or by the guard for a missing or empty list) and has sent a request.
InProviderLoop == requested # "" /\ requested # "bitcoin" /\ HasProviders /\ requests # <<>>

C15_Sequential ==
    InProviderLoop =>
        /\ Len(requests) <= 3 * Len(apiProviders[requested])
        /\ \A k \in 1..Len(requests) :
              requests[k] = apiProviders[requested][((k - 1) \div 3) + 1].name
        /\ lastAttempt.ok => (Returned /\ failureLog = Len(requests) - 1)
        /\ (Returned /\ ~lastAttempt.ok)
              => failureLog = 3 * Len(apiProviders[requested])

\* C15 (bounded, sequential attempts): the k-th request of a call goes to
\* provider number ceil(k / 3) of the list, so each provider gets at most 3
\* attempts, in list order, a provider is attempted only after 3 failures of
\* the one before it, and at most 3 x P requests are sent; a successful attempt
\* ends the call; and a call whose requests are all answered returns.
C15_BoundedAttempts ==
    /\ []C15_Sequential
    /\ InFlight ~> Returned

\* The first provider failed three times and the call returned on an attempt of
\* the second provider.
C15_Witness ==
    /\ Returned
    /\ Len(requests) > 3
    /\ lastAttempt.ok
    /\ lastAttempt.provider = "blockcypher"
    /\ requests[1] = "etherscan"

\* C16 (backoff within a provider's turn): the delay is 4000 ms at a provider's
\* first attempt and doubles with each further attempt; a sleep follows exactly
\* the first and the second failure of a provider, of 4000 ms and of 8000 ms, and
\* none follows its third; the next provider starts again at 4000 ms.
C16_BackoffPerProvider ==
    InProviderLoop =>
        /\ \A i \in 1..Len(sleeps) : sleeps[i] = IF i % 2 = 1 THEN 4000 ELSE 8000
        /\ Len(sleeps) = 2 * (providerIndex - 1) + (AttemptsOnCurrent - 1)
                            + (IF pc = "sleep" THEN 1 ELSE 0)
        /\ ~Returned => delay = 4000 * (IF AttemptsOnCurrent = 1 THEN 1
                                                  ELSE IF AttemptsOnCurrent = 2 THEN 2 ELSE 4)

\* Both providers failed all their attempts: four sleeps, none after a third
\* failure.
C16_Witness ==
    /\ Exhausted
    /\ Len(apiProviders[requested]) = 2
    /\ Len(requests) = 6
    /\ sleeps = <<4000, 8000, 4000, 8000>>

\* C17 (getBalance leaves the registry alone): no step of getBalance, the step
\* that ends a provider's last retry included, changes the registry's cooldown
\* map or its rotation index; the cooldown map changes by setCooldown only.
C17_RegistryUntouched ==
    [][(pipeVars' # pipeVars) => UNCHANGED <<cooldowns, lastUsedIndex>>]_vars

\* A registered provider has failed all its retries, and the registry holds no
\* cooldown entry and no rotation index.
C17_Witness ==
    /\ Exhausted
    /\ Len(availableProviders(requested)) > 0
    /\ availableProviders(requested)[1] = requests[1]
    /\ cooldowns = <<>>
    /\ lastUsedIndex = <<>>

(***************************************************************************)
(* Further claims about the registry.                                      *)
(***************************************************************************)

\* Every (currency, providerName) pair of the inputs.
AllPairs ==
    {<<c, p>> : c \in RegCurrencies,
                p \in UNION {ProviderNames(d) : d \in RegCurrencies}}

\* C19 (setCooldown touches one pair only): the timestamp the cooldown check of
\* getNextProvider reads for a pair is the one set by the latest setCooldown
\* for that very pair (0 when there was none), whatever setCooldown calls were
\* made for other pairs.
C19_CooldownFrame ==
    \A pair \in AllPairs :
        MapGet(cooldowns, cooldownKey(pair[1], pair[2]), 0) = MapGet(deadline, pair, 0)

(***************************************************************************)
(* Claims about the exchange-rate cache and the address derivation.        *)
(***************************************************************************)

\* The feed's response is a failure: the call threw, or the status is not a
\* success, or the body carries the error indicator.
FeedFailed(resp) ==
    \/ resp.k \in {"throw", "badjson"}
    \/ ~resp.ok
    \/ /\ FeedBodies[resp.body].t = "obj"
       /\ OwnProperty(FeedBodies[resp.body].props, "Response", 1)
             = Str(<<"E", "r", "r", "o", "r">>)
ClaimedFallback ==
    [bitcoin |-> 60000, ethereum |-> 3000, solana |-> 150, ton |-> 6, usdt |-> 1]

\* C12 (fallback on feed failure): after a refresh whose feed call threw,
\* answered a status that is not a success or answered the error indicator,
\* getExchangeRate returns 60000, 3000, 150, 6 and 1 for bitcoin, ethereum,
\* solana, ton and usdt, whatever the cache held before.
C12_FallbackOnFailure ==
    (lastRefresh.kind # "none" /\ FeedFailed(lastRefresh.resp))
        => \A c \in DOMAIN ClaimedFallback : getExchangeRate(c) = Whole(ClaimedFallback[c])

\* A refresh that started from fed prices got the error indicator with a
\* success status, and bitcoin is priced 60000 again.
C12_Witness ==
    /\ lastRefresh.kind = "fallback"
    /\ lastRefresh.resp = [k |-> "body", ok |-> TRUE, body |-> 4]
    /\ "bitcoin" \in DOMAIN lastRefresh.before
    /\ lastRefresh.before["bitcoin"] = Whole(62000)
    /\ getExchangeRate("bitcoin") = Whole(60000)
    /\ getExchangeRate("usdt") = Whole(1)

\* What a body returns for a tracked currency: its price, or Undef when the
\* body has no entry for its symbol or the entry holds no USD price.
SymbolOf(c) == mobulaSymbols[CHOOSE i \in 1..Len(mobulaSymbols) : mobulaSymbols[i][1] = c][2]
Tracked == {mobulaSymbols[i][1] : i \in 1..Len(mobulaSymbols)}
ReturnedPrice(body, c) ==
    LET entry == OwnProperty(body.props, SymbolOf(c), 1)
    IN  IF entry.t = "obj" THEN OwnProperty(entry.props, "USD", 1) ELSE Undef
\* The rate a cache gives for a currency: its value, or 0 without one.
RateIn(cache, c) == IF c \in DOMAIN cache THEN cache[c] ELSE Whole(0)
RateIsCached ==
    \A c \in RateCurrencies : getExchangeRate(c) = RateIn(exchangeRateCache, c)

\* C13 as stated: after a successful refresh getExchangeRate returns the
\* returned price for every tracked symbol the response prices and, for every
\* other currency, what the cache gave before; it returns the cached value, or
\* 0 without one.
C13_Original ==
    /\ RateIsCached
    /\ lastRefresh.kind = "success" =>
          \A c \in RateCurrencies :
              getExchangeRate(c) =
                  IF c \in Tracked /\ ReturnedPrice(FeedBodies[lastRefresh.resp.body], c).t = "num"
                  THEN ReturnedPrice(FeedBodies[lastRefresh.resp.body], c)
                  ELSE RateIn(lastRefresh.before, c)

\* C13 (refresh frame), amended: after a successful refresh getExchangeRate
\* returns the returned price for every tracked symbol for which the response
\* returns a price that is not 0 and, for every other currency, a symbol
\* returned with the price 0 included, what the cache gave before; it returns
\* the cached value, or 0 without one.
C13_RefreshFrame ==
    /\ RateIsCached
    /\ lastRefresh.kind = "success" =>
          \A c \in RateCurrencies :
              getExchangeRate(c) =
                  IF c \in Tracked /\ ReturnedPrice(FeedBodies[lastRefresh.resp.body], c).t = "num"
                     /\ ReturnedPrice(FeedBodies[lastRefresh.resp.body], c).m # 0
                  THEN ReturnedPrice(FeedBodies[lastRefresh.resp.body], c)
                  ELSE RateIn(lastRefresh.before, c)

\* A response pricing bitcoin only was taken into a cache that held a price for
\* ethereum: bitcoin is overwritten, ethereum is as before.
C13_Witness ==
    /\ lastRefresh.kind = "success"
    /\ lastRefresh.resp.body = 2
    /\ RateIn(lastRefresh.before, "bitcoin") = Whole(61000)
    /\ RateIn(lastRefresh.before, "ethereum") = Whole(3100)
    /\ getExchangeRate("bitcoin") = Whole(62000)
    /\ getExchangeRate("ethereum") = Whole(3100)
    /\ getExchangeRate("tron") = Whole(0)

\* C14 (unsupported currency): deriveAddress called with a currency other than
\* bitcoin, solana, ton and tron raises an error to its caller and yields no
\* address; called with one of the four it yields an address.
C14_UnsupportedCurrency ==
    derivation.currency # "" =>
        IF derivation.currency \in {"bitcoin", "solana", "ton", "tron"}
        THEN ~derivation.threw /\ derivation.address # ""
        ELSE derivation.threw /\ derivation.address = ""

\* deriveAddress was called for ethereum, which startBot derives by other
\* means, and raised the error.
C14_Witness ==
    /\ derivation.currency = "ethereum"
    /\ derivation.threw
    /\ derivation.address = ""

(***************************************************************************)
(* Claims about tasks sharing the registry.                                *)
(***************************************************************************)

\* C20 (calls are atomic across tasks): at most one task is inside a
\* getNextProvider call, and while it is, the rotation index it read is still
\* the one stored (no other task's step has come between its read and its
\* write); so the providers returned by consecutive calls of all tasks for a
\* currency, none of whose N providers is in cooldown, are pairwise distinct
\* over every window of N calls.
C20_AtomicCalls ==
    /\ \A t \in Tasks :
          taskCall[t].phase = "read" =>
              /\ running = t
              /\ taskCall[t].currentIndex = MapGet(lastUsedIndex, taskCall[t].currency, 0)
    /\ \A t, u \in Tasks :
          (taskCall[t].phase = "read" /\ taskCall[u].phase = "read") => t = u
    /\ \A i, j \in 1..Len(run[WiredCurrency]) :
          i # j => run[WiredCurrency][i] # run[WiredCurrency][j]

\* Two tasks made the two latest calls for a currency with two providers, none
\* in cooldown, and got different providers.
C20_Witness ==
    /\ running = 0
    /\ Len(availableProviders(WiredCurrency)) = 2
    /\ Len(run[WiredCurrency]) = 2
    /\ run[WiredCurrency] = <<taskCall[1].ret, taskCall[2].ret>>
    /\ taskCall[1].ret # taskCall[2].ret
    /\ taskCall[1].ret # NoProvider

(***************************************************************************)
(* A further claim about getBalance.                                       *)
(***************************************************************************)

\* C21 (native balance is not negative): the native balance of every result
\* getBalance returns is an integer that is 0 or more, whatever the providers
\* answer.
C21_NativeNonNegative ==
    Returned => (result.native \in Int /\ result.native >= 0)

\* C22 (a refresh is one step for every lookup): only the refresh writes
\* exchangeRateCache, no lookup task reads a rate while some but not all of the
\* writes of a refresh have been made, and when the refresh has returned the
\* cache is the one its branch gives as a whole: the fed prices over the cache
\* it started from, or the fallback prices.
CacheAfterRefresh ==
    IF lastRefresh.kind = "success"
    THEN WithPrices(lastRefresh.before, FeedBodies[lastRefresh.resp.body], 1)
    ELSE WithFallback(lastRefresh.before, 1)
C22_AtomicRefresh ==
    /\ [](~observed.partial)
    /\ []((refreshRun.phase = "idle" /\ lastRefresh.kind # "none")
            => exchangeRateCache = CacheAfterRefresh)
    /\ [][(exchangeRateCache' # exchangeRateCache)
            => (running = Refresher /\ refreshRun.phase = "writing"
                /\ refreshRun'.pending = Tail(refreshRun.pending))]_vars

\* A lookup task read bitcoin's rate after a refresh that failed had written
\* all five fallback prices over fed ones.
C22_Witness ==
    /\ refreshRun.phase = "idle"
    /\ lastRefresh.kind = "fallback"
    /\ "bitcoin" \in DOMAIN lastRefresh.before
    /\ lastRefresh.before["bitcoin"] = Whole(62000)
    /\ observed.currency = "bitcoin"
    /\ observed.value = Whole(60000)
    /\ ~observed.partial
    /\ Len(FallbackWrites) = 5

=============================================================================
